---- MODULE Spec2Model ----
(***************************************************************************)
(* PQ tracker: the entry form (PQEntryForm), its spreadsheet extractor     *)
(* (extractDataFromExcel) and the records list (RecordsView).              *)
(*                                                                         *)
(* Text is modelled as a sequence of one-character strings, so that the    *)
(* string operations of the source (trim, toLowerCase, includes, indexOf,  *)
(* substring, match) are computed on the characters.                       *)
(***************************************************************************)
EXTENDS Integers, Sequences, FiniteSets, TLC

(***************************************************************************)
(* JavaScript string operations                                            *)
(***************************************************************************)
UpperAlpha == <<"A","B","C","D","E","F","G","H","I","J","K","L","M","N","O","P","Q","R","S","T","U","V","W","X","Y","Z">>
LowerAlpha == <<"a","b","c","d","e","f","g","h","i","j","k","l","m","n","o","p","q","r","s","t","u","v","w","x","y","z">>
Digits == <<"0","1","2","3","4","5","6","7","8","9">>

UpperSet == {UpperAlpha[i] : i \in DOMAIN UpperAlpha}
LowerSet == {LowerAlpha[i] : i \in DOMAIN LowerAlpha}
DigitSet == {Digits[i] : i \in DOMAIN Digits}
IsUpper(c) == c \in UpperSet
IsLower(c) == c \in LowerSet
IsDigit(c) == c \in DigitSet
IsSpace(c) == c = " "

LowerOf == [c \in UpperSet |-> LowerAlpha[CHOOSE i \in DOMAIN UpperAlpha : UpperAlpha[i] = c]]
UpperOf == [c \in LowerSet |-> UpperAlpha[CHOOSE i \in DOMAIN LowerAlpha : LowerAlpha[i] = c]]
LowerChar(c) == IF IsUpper(c) THEN LowerOf[c] ELSE c
UpperChar(c) == IF IsLower(c) THEN UpperOf[c] ELSE c

\* String.prototype.toLowerCase / toUpperCase
toLowerCase(s) == [i \in 1..Len(s) |-> LowerChar(s[i])]
toUpperCase(s) == [i \in 1..Len(s) |-> UpperChar(s[i])]

\* sub occurs in s starting at the 1-based position p
OccursAt(s, sub, p) ==
  /\ p >= 1
  /\ p + Len(sub) - 1 <= Len(s)
  /\ \A k \in 1..Len(sub) : s[p + k - 1] = sub[k]

\* String.prototype.includes
includes(s, sub) == \E p \in 1..(Len(s) + 1) : OccursAt(s, sub, p)

\* String.prototype.indexOf: 0-based index of the first occurrence, -1 if none
indexOf(s, sub) ==
  IF includes(s, sub)
    THEN (CHOOSE p \in 1..(Len(s) + 1) :
            /\ OccursAt(s, sub, p)
            /\ \A q \in 1..(p - 1) : ~OccursAt(s, sub, q)) - 1
    ELSE -1

\* String.prototype.substring(from, to) with 0-based from <= to <= length
substring(s, from, to) == [i \in 1..(to - from) |-> s[from + i]]

\* String.prototype.trim
trim(s) ==
  IF \A i \in 1..Len(s) : IsSpace(s[i]) THEN << >>
  ELSE LET first == CHOOSE i \in 1..Len(s) :
                      ~IsSpace(s[i]) /\ \A j \in 1..(i - 1) : IsSpace(s[j])
           last  == CHOOSE i \in 1..Len(s) :
                      ~IsSpace(s[i]) /\ \A j \in (i + 1)..Len(s) : IsSpace(s[j])
       IN  substring(s, first - 1, last)

(***************************************************************************)
(* The invoice pattern /[A-Z]{2,4}\/\d+\/\d{4}-\d{2}/                        *)
(***************************************************************************)
MinLetters == 2
MaxLetters == 4
YearDigits == 4
SuffixDigits == 2

\* every character of s at positions a..b satisfies the class
AllUpper(s, a, b) == \A i \in a..b : i <= Len(s) /\ IsUpper(s[i])
AllDigit(s, a, b) == \A i \in a..b : i <= Len(s) /\ IsDigit(s[i])
CharAt(s, i, c) == i >= 1 /\ i <= Len(s) /\ s[i] = c

\* the number of digits of s from position i on, up to the first non-digit
DigitRun(s, i) ==
  IF \E j \in i..Len(s) : ~IsDigit(s[j])
    THEN (CHOOSE j \in i..Len(s) : ~IsDigit(s[j]) /\ \A k \in i..(j - 1) : IsDigit(s[k])) - i
    ELSE IF i <= Len(s) THEN Len(s) - i + 1 ELSE 0

\* the pattern matches s at 1-based position p with n letters: \d+ takes the
\* whole run of digits (a '/' must follow it), and the match ends at
\* PatternEnd(s, p, n)
PatternEnd(s, p, n) ==
  p + n + 1 + DigitRun(s, p + n + 1) + 1 + YearDigits + 1 + SuffixDigits - 1
PatternAt(s, p, n) ==
  LET d == DigitRun(s, p + n + 1)
  IN  /\ CharAt(s, p + n, "/")
      /\ AllUpper(s, p, p + n - 1)
      /\ d >= 1
      /\ CharAt(s, p + n + d + 1, "/")
      /\ CharAt(s, p + n + d + 2 + YearDigits, "-")
      /\ AllDigit(s, p + n + d + 2, p + n + d + 1 + YearDigits)
      /\ AllDigit(s, p + n + d + 3 + YearDigits, PatternEnd(s, p, n))

PatternStartsAt(s, p) == \E n \in MinLetters..MaxLetters : PatternAt(s, p, n)

\* text.match(pattern): the leftmost match, the letter group greedy; << >> when
\* there is none (the pattern never matches the empty string)
invoiceMatch(s) ==
  IF \E p \in 1..Len(s) : PatternStartsAt(s, p)
    THEN LET p == CHOOSE q \in 1..Len(s) :
                    PatternStartsAt(s, q) /\ \A r \in 1..(q - 1) : ~PatternStartsAt(s, r)
             n == CHOOSE m \in MinLetters..MaxLetters :
                    /\ PatternAt(s, p, m)
                    /\ \A m2 \in (m + 1)..MaxLetters : ~PatternAt(s, p, m2)
         IN  substring(s, p - 1, PatternEnd(s, p, n))
    ELSE << >>

matchesInvoicePattern(s) == invoiceMatch(s) # << >>

(***************************************************************************)
(* extractDataFromExcel: the cell map                                      *)
(***************************************************************************)
kwExporter == <<"e","x","p","o","r","t","e","r">>
kwConsignee == <<"c","o","n","s","i","g","n","e","e">>
kwColon == <<":">>
kwInvoice == <<"i","n","v","o","i","c","e">>
kwProforma == <<"p","r","o","f","o","r","m","a">>
kwDate == <<"d","a","t","e">>
kwNoDot == <<"n","o",".">>
kwRef == <<"r","e","f">>
kwDestination == <<"d","e","s","t","i","n","a","t","i","o","n">>
kwCountry == <<"c","o","u","n","t","r","y">>
kwOrigin == <<"o","r","i","g","i","n">>
kwGoods == <<"g","o","o","d","s">>
kwFinalDestination == <<"f","i","n","a","l"," ","d","e","s","t","i","n","a","t","i","o","n">>
kwCountryOfFinalDestination == <<"c","o","u","n","t","r","y"," ","o","f"," ","f","i","n","a","l"," ","d","e","s","t","i","n","a","t","i","o","n">>
kwDestinationCountry == <<"d","e","s","t","i","n","a","t","i","o","n"," ","c","o","u","n","t","r","y">>
kwCountryOfOrigin == <<"c","o","u","n","t","r","y"," ","o","f"," ","o","r","i","g","i","n">>
SRI_LANKA == <<"S","R","I"," ","L","A","N","K","A">>
SRILANKA == <<"S","R","I","L","A","N","K","A">>
COLOMBO == <<"C","O","L","O","M","B","O">>
kwChillies == <<"c","h","i","l","l","i","e","s">>
kwTurmeric == <<"t","u","r","m","e","r","i","c">>
kwRice == <<"r","i","c","e">>
kwSpices == <<"s","p","i","c","e","s">>
kwJaggery == <<"j","a","g","g","e","r","y">>
kwOnions == <<"o","n","i","o","n","s">>
kwSannam == <<"s","a","n","n","a","m">>
kwSriLanka == <<"s","r","i"," ","l","a","n","k","a">>
kwSrilanka == <<"s","r","i","l","a","n","k","a">>
kwBangladesh == <<"b","a","n","g","l","a","d","e","s","h">>
kwNepal == <<"n","e","p","a","l">>
kwPakistan == <<"p","a","k","i","s","t","a","n">>
kwMyanmar == <<"m","y","a","n","m","a","r">>
kwMaldives == <<"m","a","l","d","i","v","e","s">>

commodityKeywords ==
  <<kwChillies, kwTurmeric, kwRice, kwSpices, kwJaggery, kwOnions, kwSannam>>
destinationCountries ==
  <<kwSriLanka, kwSrilanka, kwBangladesh, kwNepal, kwPakistan, kwMyanmar, kwMaldives>>

\* the form fields the extractor can fill
TargetFields == {"shipper_name", "buyer", "invoice_number", "commodity", "destination_port"}

\* for (let i = lo; i <= hi; i++) ... if (P(i)) ... break: the first such i
NoOffset == -1
MinOffset(hits) ==
  IF hits # {} THEN CHOOSE i \in hits : \A j \in hits : i <= j ELSE NoOffset
FirstOffset(lo, hi, P(_)) == MinOffset({i \in lo..hi : P(i)})

\* extractInvoiceNumber
dtUpperColon == <<"D","T",":">>
dateUpperColon == <<"D","A","T","E",":">>
dtLowerColon == <<"d","t",":">>
dateLowerColon == <<"d","a","t","e",":">>
spaceDT == <<" ","D","T">>
spaceDATE == <<" ","D","A","T","E">>
dateIndicators == <<dtUpperColon, dateUpperColon, dtLowerColon, dateLowerColon, spaceDT, spaceDATE>>

\* a variant that keeps the whole trimmed text
extractInvoiceNumberUncut(text) == trim(text)

extractInvoiceNumber(text) ==
  LET cleanText == trim(text)
      invoiceMatchResult == invoiceMatch(cleanText)
      k == FirstOffset(1, Len(dateIndicators),
                       LAMBDA j : indexOf(cleanText, dateIndicators[j]) > 0)
  IN  IF invoiceMatchResult # << >> THEN invoiceMatchResult
      ELSE IF k # NoOffset
        THEN trim(substring(cleanText, 0, indexOf(cleanText, dateIndicators[k])))
        ELSE cleanText

\* a cell address is <<row, col>>, 0-based as in the source ({r, c})
NoCell == <<-1, -1>>

\* row-major order of two cell addresses: the order in which cellMap is filled
Before(a, b) == a[1] < b[1] \/ (a[1] = b[1] /\ a[2] < b[2])

\* cellMap: the cells of jsonData whose text is non-empty after trimming, each
\* with its trimmed text.  Three values the scan computes from a cell's text
\* each time it looks at the cell are kept with it: lower is
\* value.toLowerCase(), cleanInvoice is extractInvoiceNumber(value), and
\* isInvoice tells whether cleanInvoice matches the invoice pattern
cellEntry(text, row, col) ==
  LET value == trim(text)
      cleanInvoice == extractInvoiceNumber(value)
  IN  [value |-> value, row |-> row, col |-> col, lower |-> toLowerCase(value),
       cleanInvoice |-> cleanInvoice, isInvoice |-> matchesInvoicePattern(cleanInvoice)]
cellMapOf(jsonData) ==
  [a \in {b \in DOMAIN jsonData : jsonData[b] # << >> /\ trim(jsonData[b]) # << >>}
     |-> cellEntry(jsonData[a], a[1], a[2])]

\* for (const [address, cell] of Object.entries(cellMap)) ... if (P) ... break:
\* the first cell in insertion (row-major) order that satisfies P
MinCell(hits) ==
  IF hits # {} THEN CHOOSE a \in hits : \A b \in hits : ~Before(b, a) ELSE NoCell
FirstCell(cellMap, P(_)) == MinCell({a \in DOMAIN cellMap : P(a)})

\* one assignment to extractedData, as pushed to extractionDetails
Detail(field, value, address, step) ==
  [field |-> field, value |-> value, address |-> address, step |-> step]

(***************************************************************************)
(* extractDataFromExcel: the search steps.  Each step yields the sequence  *)
(* of assignments it makes to extractedData, in order.                     *)
(***************************************************************************)
Below(a, i) == <<a[1] + i, a[2]>>
RightOf(a, i) == <<a[1], a[2] + i>>
lower(cellMap, a) == cellMap[a].lower

\* Extract Shipper Name: the first 'exporter' cell, then 1..3 rows below it
shipperAccepts(cellMap, b) ==
  /\ b \in DOMAIN cellMap
  /\ Len(cellMap[b].value) > 5
  /\ ~includes(lower(cellMap, b), kwConsignee)

\* a variant that goes on to later 'exporter' cells when the first leads nowhere
shipperSearchAnyLabel(cellMap) ==
  LET leads(a) == /\ includes(lower(cellMap, a), kwExporter)
                  /\ FirstOffset(1, 3, LAMBDA k : shipperAccepts(cellMap, Below(a, k))) # NoOffset
      label == FirstCell(cellMap, leads)
  IN  IF label = NoCell THEN << >>
      ELSE LET i == FirstOffset(1, 3, LAMBDA k : shipperAccepts(cellMap, Below(label, k)))
           IN  << Detail("shipper_name", cellMap[Below(label, i)].value,
                         Below(label, i), "exporter") >>

shipperSearch(cellMap) ==
  LET label == FirstCell(cellMap, LAMBDA a : includes(lower(cellMap, a), kwExporter))
  IN  IF label = NoCell THEN << >>
      ELSE LET i == FirstOffset(1, 3, LAMBDA k : shipperAccepts(cellMap, Below(label, k)))
           IN  IF i = NoOffset THEN << >>
               ELSE << Detail("shipper_name", cellMap[Below(label, i)].value,
                              Below(label, i), "exporter") >>

\* Extract Buyer/Consignee: the first 'consignee' cell, then 0..3 rows below it
\* a variant without the ':' test
buyerAcceptsColon(cellMap, b) ==
  /\ b \in DOMAIN cellMap
  /\ Len(cellMap[b].value) > 3
  /\ ~includes(lower(cellMap, b), kwConsignee)

buyerAccepts(cellMap, b) ==
  /\ b \in DOMAIN cellMap
  /\ Len(cellMap[b].value) > 3
  /\ ~includes(lower(cellMap, b), kwConsignee)
  /\ ~includes(lower(cellMap, b), kwColon)

buyerSearch(cellMap) ==
  LET label == FirstCell(cellMap, LAMBDA a : includes(lower(cellMap, a), kwConsignee))
  IN  IF label = NoCell THEN << >>
      ELSE LET i == FirstOffset(0, 3, LAMBDA k : buyerAccepts(cellMap, Below(label, k)))
           IN  IF i = NoOffset THEN << >>
               ELSE << Detail("buyer", cellMap[Below(label, i)].value,
                              Below(label, i), "consignee") >>

\* the range M10:X10 is row 9, columns 12..23
RangeRow == 9
RangeFirstCol == 12
RangeLastCol == 23

buyerRangeAccepts(cellMap, b) ==
  /\ b \in DOMAIN cellMap
  /\ Len(cellMap[b].value) > 5
  /\ ~includes(lower(cellMap, b), kwInvoice)
  /\ ~includes(lower(cellMap, b), kwDate)
  /\ ~includes(lower(cellMap, b), kwNoDot)
  /\ ~includes(lower(cellMap, b), kwRef)

buyerRangeSearch(cellMap) ==
  LET col == FirstOffset(RangeFirstCol, RangeLastCol,
                         LAMBDA c : buyerRangeAccepts(cellMap, <<RangeRow, c>>))
  IN  IF col = NoOffset THEN << >>
      ELSE << Detail("buyer", cellMap[<<RangeRow, col>>].value, <<RangeRow, col>>, "M10:X10") >>

invoiceAccepts(cellMap, b) ==
  /\ b \in DOMAIN cellMap
  /\ cellMap[b].isInvoice

isInvoiceLabel(cellMap, a) ==
  /\ includes(lower(cellMap, a), kwInvoice)
  /\ ~includes(lower(cellMap, a), kwProforma)

\* the cell an 'invoice' label leads to: 1..5 columns to its right, and when
\* none of them holds an invoice number, 1..3 rows below it
invoiceNear(cellMap, label) ==
  LET c == FirstOffset(1, 5, LAMBDA k : invoiceAccepts(cellMap, RightOf(label, k)))
      r == FirstOffset(1, 3, LAMBDA k : invoiceAccepts(cellMap, Below(label, k)))
  IN  IF c # NoOffset THEN RightOf(label, c)
      ELSE IF r # NoOffset THEN Below(label, r)
      ELSE NoCell

invoiceSearch(cellMap) ==
  LET label == FirstCell(cellMap, LAMBDA a :
                  isInvoiceLabel(cellMap, a) /\ invoiceNear(cellMap, a) # NoCell)
  IN  IF label = NoCell THEN << >>
      ELSE LET b == invoiceNear(cellMap, label)
           IN  << Detail("invoice_number", cellMap[b].cleanInvoice, b,
                         IF b[1] = label[1] THEN "invoice right" ELSE "invoice below") >>

\* the 'M4+ area' is rows 3..10, columns 12..20, scanned row by row
AreaFirstRow == 3
AreaLastRow == 10
AreaFirstCol == 12
AreaLastCol == 20

invoiceAreaSearch(cellMap) ==
  LET area == {a \in DOMAIN cellMap :
                 /\ a[1] >= AreaFirstRow /\ a[1] <= AreaLastRow
                 /\ a[2] >= AreaFirstCol /\ a[2] <= AreaLastCol}
      b == FirstCell(cellMap, LAMBDA a : a \in area /\ invoiceAccepts(cellMap, a))
  IN  IF b = NoCell THEN << >>
      ELSE << Detail("invoice_number", cellMap[b].cleanInvoice, b, "M4 area") >>

\* Extract Commodity: the first cell that contains a commodity keyword
hasKeyword(text, keywords) == \E k \in DOMAIN keywords : includes(text, keywords[k])

commoditySearch(cellMap) ==
  LET b == FirstCell(cellMap, LAMBDA a : hasKeyword(lower(cellMap, a), commodityKeywords))
  IN  IF b = NoCell THEN << >>
      ELSE << Detail("commodity", cellMap[b].value, b, "keyword") >>

\* Extract Destination Country: the label search
isDestinationLabel(cellMap, a) ==
  \/ includes(lower(cellMap, a), kwFinalDestination)
  \/ includes(lower(cellMap, a), kwCountryOfFinalDestination)
  \/ includes(lower(cellMap, a), kwDestinationCountry)

\* a variant without the 'origin' test
destinationAcceptsOrigin(cellMap, b) ==
  /\ b \in DOMAIN cellMap
  /\ Len(cellMap[b].value) > 2
  /\ ~includes(lower(cellMap, b), kwDestination)
  /\ ~includes(lower(cellMap, b), kwCountry)

destinationAccepts(cellMap, b) ==
  /\ b \in DOMAIN cellMap
  /\ Len(cellMap[b].value) > 2
  /\ ~includes(lower(cellMap, b), kwDestination)
  /\ ~includes(lower(cellMap, b), kwCountry)
  /\ ~includes(lower(cellMap, b), kwOrigin)

\* what the label search stores for an accepted cell text
cleanDestinationOf(destinationValue) ==
  LET cleanDestination == toUpperCase(destinationValue)
  IN  IF includes(cleanDestination, SRI_LANKA) \/ includes(cleanDestination, SRILANKA)
        THEN SRI_LANKA
      ELSE IF includes(cleanDestination, COLOMBO) THEN SRI_LANKA
      ELSE cleanDestination

\* the cell a destination label leads to: 1..5 columns to its right, and when
\* none of them is accepted, the cell right below it
destinationNear(cellMap, label) ==
  LET c == FirstOffset(1, 5, LAMBDA k : destinationAccepts(cellMap, RightOf(label, k)))
  IN  IF c # NoOffset THEN RightOf(label, c)
      ELSE IF destinationAccepts(cellMap, Below(label, 1)) THEN Below(label, 1)
      ELSE NoCell

destinationSearch(cellMap) ==
  LET label == FirstCell(cellMap, LAMBDA a :
                  isDestinationLabel(cellMap, a) /\ destinationNear(cellMap, a) # NoCell)
  IN  IF label = NoCell THEN << >>
      ELSE LET b == destinationNear(cellMap, label)
           IN  << Detail("destination_port", cleanDestinationOf(cellMap[b].value), b,
                         IF b[1] = label[1] THEN "destination right" ELSE "destination below") >>

\* extractedData after a sequence of assignments: the last value given to each key
Assigned(details) ==
  [f \in {details[i].field : i \in DOMAIN details} |->
     details[CHOOSE i \in DOMAIN details :
               details[i].field = f /\ \A j \in DOMAIN details : j > i => details[j].field # f].value]

\* JavaScript truthiness of extractedData[key]: the key is set to a non-empty string
Truthy(extractedData, key) == key \in DOMAIN extractedData /\ extractedData[key] # << >>

\* the key the fallback's guard reads: if (!extractedData.destinationPort)
fallbackGuardKey == "destinationPort"

\* Extract Destination Country: the fallback keyword search.  Cells with
\* 'origin' or 'goods' are skipped; the loop stops at the first other cell
\* after which extractedData.destination_port is set.
fallbackSkips(cellMap, a) ==
  \/ includes(lower(cellMap, a), kwOrigin)
  \/ includes(lower(cellMap, a), kwGoods)
  \/ includes(lower(cellMap, a), kwCountryOfOrigin)

fallbackValue(cellValue) ==
  IF includes(cellValue, kwSriLanka) \/ includes(cellValue, kwSrilanka) THEN SRI_LANKA
  ELSE toUpperCase(destinationCountries[
         FirstOffset(1, Len(destinationCountries),
                     LAMBDA k : includes(cellValue, destinationCountries[k]))])

destinationFallback(cellMap, extractedData) ==
  LET stops(a) == /\ ~fallbackSkips(cellMap, a)
                  /\ \/ hasKeyword(lower(cellMap, a), destinationCountries)
                     \/ Truthy(extractedData, "destination_port")
      b == FirstCell(cellMap, stops)
  IN  IF b = NoCell \/ ~hasKeyword(lower(cellMap, b), destinationCountries) THEN << >>
      ELSE << Detail("destination_port", fallbackValue(lower(cellMap, b)), b, "fallback") >>

(***************************************************************************)
(* extractDataFromExcel: the whole scan, in its fixed order                *)
(***************************************************************************)
LogEntry(kind, info) == [kind |-> kind, info |-> info]

\* extractionDetails and the search messages of one scan of cellMap
\* the state of a run: the assignments made and the searches announced so far
Started == [extractionDetails |-> << >>, searches |-> << >>]
Ran(run, search, details) ==
  [extractionDetails |-> run.extractionDetails \o details,
   searches |-> Append(run.searches, search)]
Has(run, key) == Truthy(Assigned(run.extractionDetails), key)

shipperStep(cellMap, run) == Ran(run, "exporter", shipperSearch(cellMap))
buyerStep(cellMap, run) == Ran(run, "consignee", buyerSearch(cellMap))
buyerRangeStep(cellMap, run) ==
  IF Has(run, "buyer") THEN run ELSE Ran(run, "M10:X10", buyerRangeSearch(cellMap))
invoiceStep(cellMap, run) == Ran(run, "invoice", invoiceSearch(cellMap))
invoiceAreaStep(cellMap, run) ==
  IF Has(run, "invoice_number") THEN run ELSE Ran(run, "M4 area", invoiceAreaSearch(cellMap))
commodityStep(cellMap, run) == Ran(run, "commodity", commoditySearch(cellMap))
destinationStep(cellMap, run) == Ran(run, "destination", destinationSearch(cellMap))
fallbackStep(cellMap, run) ==
  IF Has(run, fallbackGuardKey) THEN run
  ELSE Ran(run, "fallback", destinationFallback(cellMap, Assigned(run.extractionDetails)))

scan(cellMap) ==
  fallbackStep(cellMap,
    destinationStep(cellMap,
      commodityStep(cellMap,
        invoiceAreaStep(cellMap,
          invoiceStep(cellMap,
            buyerRangeStep(cellMap,
              buyerStep(cellMap,
                shipperStep(cellMap, Started))))))))

(***************************************************************************)
(* JavaScript values other than strings, and PQRecord                      *)
(***************************************************************************)
JsTrue == << "#true" >>
JsFalse == << "#false" >>
JsUndefined == << "#undefined" >>
JsNull == << "#null" >>
JsEmptyArray == << "#[]" >>
JsBool(b) == IF b THEN JsTrue ELSE JsFalse

\* typeof value === 'string'
IsString(v) == v \notin {JsTrue, JsFalse, JsUndefined, JsNull, JsEmptyArray}
\* !value
Falsy(v) == v \in {<< >>, JsFalse, JsUndefined, JsNull}
\* value || fallback
OrElse(v, fallback) == IF Falsy(v) THEN fallback ELSE v

stPending == <<"P","e","n","d","i","n","g">>
stReceived == <<"R","e","c","e","i","v","e","d">>
stNotReceived == <<"N","o","t"," ","R","e","c","e","i","v","e","d">>
stNotRequired == <<"N","o","t"," ","R","e","q","u","i","r","e","d">>
stYes == <<"Y","e","s">>
stNo == <<"N","o">>

\* formatDate(new Date()): the day the model runs on
Today == <<"2","0","2","5","-","0","7","-","0","6">>

RequiredFields == <<"shipper_name", "buyer", "invoice_number", "commodity", "destination_port">>
RequiredMessage ==
  [shipper_name |-> "Shipper name is required",
   buyer |-> "Buyer name is required",
   invoice_number |-> "Invoice number is required",
   commodity |-> "Commodity is required",
   destination_port |-> "Destination country is required"]

\* useState initial value of formData
initialFormData ==
  [date |-> Today, shipper_name |-> << >>, buyer |-> << >>, invoice_number |-> << >>,
   commodity |-> << >>, shipping_bill_received |-> JsFalse, pq_status |-> stPending,
   pq_hardcopy |-> stNotReceived, permit_copy_status |-> stNotRequired,
   destination_port |-> << >>, remarks |-> << >>, files |-> JsEmptyArray,
   created_at |-> Today, updated_at |-> Today]

\* the form data handleSubmit resets to after saving a new record
resetFormData == [initialFormData EXCEPT !.pq_hardcopy = JsFalse]

\* the effect on editRecord: the form data of an edited record (files,
\* created_at and updated_at are not set)
editFormData(record) ==
  [date |-> OrElse(record.date, Today),
   shipper_name |-> OrElse(record.shipper_name, << >>),
   buyer |-> OrElse(record.buyer, << >>),
   invoice_number |-> OrElse(record.invoice_number, << >>),
   commodity |-> OrElse(record.commodity, << >>),
   shipping_bill_received |-> OrElse(record.shipping_bill_received, JsFalse),
   pq_status |-> OrElse(record.pq_status, stPending),
   pq_hardcopy |-> OrElse(record.pq_hardcopy, stNotReceived),
   permit_copy_status |-> OrElse(record.permit_copy_status, stNotRequired),
   destination_port |-> record.destination_port,
   remarks |-> record.remarks,
   files |-> JsUndefined, created_at |-> JsUndefined, updated_at |-> JsUndefined]

NoRecord == [id |-> << >>]

\* the required-field check of validateForm and handleSubmit: newErrors
blankFieldUntrimmed(data, f) == Falsy(data[f])
blankField(data, f) == Falsy(data[f]) \/ Falsy(trim(data[f]))
requiredErrors(data) ==
  [f \in {RequiredFields[i] : i \in {j \in DOMAIN RequiredFields : blankField(data, RequiredFields[j])}}
     |-> RequiredMessage[f]]

\* prev => { ...prev, [key]: value }  and  delete newErrors[key]
WithKey(obj, key, value) ==
  [k \in DOMAIN obj \cup {key} |-> IF k = key THEN value ELSE obj[k]]
WithoutKey(obj, key) == [k \in DOMAIN obj \ {key} |-> obj[k]]
\* { ...prev, ...more }
Spread(prev, more) ==
  [k \in DOMAIN prev \cup DOMAIN more |-> IF k \in DOMAIN more THEN more[k] ELSE prev[k]]
EmptyObject == [k \in {} |-> << >>]

(***************************************************************************)
(* storage: ensureNumber and the rows sent to the pq_records table         *)
(***************************************************************************)
DigitValue(c) == (CHOOSE i \in DOMAIN Digits : Digits[i] = c) - 1

RECURSIVE DigitsValue(_)
DigitsValue(ds) ==
  IF ds = << >> THEN 0
  ELSE 10 * DigitsValue(SubSeq(ds, 1, Len(ds) - 1)) + DigitValue(ds[Len(ds)])

NaN == [nan |-> TRUE, value |-> 0]
Number(n) == [nan |-> FALSE, value |-> n]

\* parseInt(value, 10): leading blanks and a sign are skipped, the longest
\* run of digits is read, and the rest is ignored; NaN when no digit is read
parseInt10(s) ==
  LET t == IF \A i \in 1..Len(s) : IsSpace(s[i]) THEN << >>
           ELSE SubSeq(s, CHOOSE i \in 1..Len(s) :
                            ~IsSpace(s[i]) /\ \A j \in 1..(i - 1) : IsSpace(s[j]), Len(s))
      signed == t # << >> /\ t[1] \in {"+", "-"}
      u == IF signed THEN Tail(t) ELSE t
      k == IF \E i \in 1..Len(u) : ~IsDigit(u[i])
             THEN (CHOOSE i \in 1..Len(u) :
                     ~IsDigit(u[i]) /\ \A j \in 1..(i - 1) : IsDigit(u[j])) - 1
             ELSE Len(u)
  IN  IF k = 0 THEN NaN
      ELSE Number((IF signed /\ t[1] = "-" THEN -1 ELSE 1) * DigitsValue(SubSeq(u, 1, k)))

ensureNumber(value) == parseInt10(value)

\* the column values savePQRecord and updatePQRecord send
rowOf(record) ==
  [date |-> record.date, shipper_name |-> record.shipper_name, buyer |-> record.buyer,
   invoice_number |-> ensureNumber(record.invoice_number), commodity |-> record.commodity,
   shipping_bill_received |-> record.shipping_bill_received, pq_status |-> record.pq_status,
   pq_hardcopy |-> record.pq_hardcopy, permit_copy_status |-> record.permit_copy_status,
   destination_port |-> record.destination_port, remarks |-> record.remarks,
   files |-> record.files, created_at |-> record.created_at, updated_at |-> record.updated_at]

\* generateId(): an id for a record that has none
GeneratedId == <<"k","1">>

\* the record handleSubmit builds from the form data it was called with
recordOf(data, edited) ==
  [id |-> IF edited # NoRecord /\ ~Falsy(edited.id) THEN edited.id ELSE GeneratedId,
   date |-> data.date,
   shipper_name |-> trim(data.shipper_name), buyer |-> trim(data.buyer),
   invoice_number |-> trim(data.invoice_number), commodity |-> trim(data.commodity),
   shipping_bill_received |-> data.shipping_bill_received, pq_status |-> data.pq_status,
   pq_hardcopy |-> data.pq_hardcopy, permit_copy_status |-> data.permit_copy_status,
   destination_port |-> trim(data.destination_port), remarks |-> trim(data.remarks),
   files |-> data.files,
   created_at |-> IF edited # NoRecord /\ ~Falsy(edited.created_at) THEN edited.created_at ELSE Today,
   updated_at |-> Today]

(***************************************************************************)
(* State                                                                   *)
(***************************************************************************)
VARIABLES
  \* PQEntryForm
  editRecord,            \* the editRecord prop, NoRecord for a new entry
  formData,
  uploadedFile,
  errors,
  isProcessingFile,
  extractionLog,
  isSubmitting,
  showSuccessAnimation,
  reading,               \* the files of the extractDataFromExcel calls awaiting arrayBuffer()
  submitPc,              \* where the running handleSubmit stands
  submitted,             \* the formData the running handleSubmit was called with
  requests,              \* the calls made to savePQRecord / updatePQRecord, in order
  lastExtracted,         \* extractedData of the extraction that finished last
  \* RecordsView
  records,
  filters,
  searchTerm,
  sortBy,
  sortOrder,
  activeSection,
  dateRange,
  viewMode,
  \* the pq_records table and the outcome of the last storage call
  table,
  issued,                \* the number of ids the table has generated
  outcome

formVars == << editRecord, formData, uploadedFile, errors, isProcessingFile, extractionLog,
               isSubmitting, showSuccessAnimation, reading, submitPc, submitted, requests,
               lastExtracted >>
viewVars == << records, filters, searchTerm, sortBy, sortOrder, activeSection, dateRange,
               viewMode >>
storeVars == << table, issued, outcome >>
vars == << formVars, viewVars, storeVars >>

NoFile == [name |-> << >>]

(***************************************************************************)
(* PQEntryForm: handlers                                                   *)
(***************************************************************************)
\* handleInputChange(fieldName)(e) with e.target.value = value
handleInputChange(fieldName, value) ==
  /\ formData' = [formData EXCEPT ![fieldName] =
                    IF fieldName = "shipping_bill_received" THEN JsBool(value = stYes) ELSE value]
  /\ errors' = IF fieldName \in DOMAIN errors THEN WithoutKey(errors, fieldName) ELSE errors
  /\ UNCHANGED << editRecord, uploadedFile, isProcessingFile, extractionLog, isSubmitting,
                  showSuccessAnimation, reading, submitPc, submitted, requests, lastExtracted >>
  /\ UNCHANGED << viewVars, storeVars >>

\* String.prototype.endsWith
endsWith(s, suffix) == Len(suffix) <= Len(s) /\ OccursAt(s, suffix, Len(s) - Len(suffix) + 1)
extXlsx == <<".","x","l","s","x">>
extXls == <<".","x","l","s">>
isExcelName(name) == endsWith(name, extXlsx) \/ endsWith(name, extXls)

\* handleFileUpload up to the first await of extractDataFromExcel
handleFileUpload(file) ==
  /\ uploadedFile' = file
  /\ errors' = WithoutKey(errors, "file")
  /\ IF isExcelName(file.name)
       THEN /\ isProcessingFile' = TRUE
            /\ extractionLog' = << LogEntry("start", << >>) >>
            /\ reading' = Append(reading, file)
       ELSE /\ extractionLog' = << >>
            /\ UNCHANGED << isProcessingFile, reading >>
  /\ UNCHANGED << editRecord, formData, isSubmitting, showSuccessAnimation, submitPc,
                  submitted, requests, lastExtracted >>
  /\ UNCHANGED << viewVars, storeVars >>

\* setFormData(prev => ({ ...prev, ...extractedData }))
\* a variant that spreads the extracted fields over a blank form
mergeExtractedOverBlank(prev, extractedData) == Spread(initialFormData, extractedData)

mergeExtracted(prev, extractedData) == Spread(prev, extractedData)

FileUnreadable == "Error processing Excel file. Please check the file format and try again."
NothingExtracted == "Unable to extract data from this Excel file. Please ensure it contains invoice information with proper formatting."

LogEntries(kind, infos) == [i \in DOMAIN infos |-> LogEntry(kind, infos[i])]

\* a variant that leaves out the list of the extracted fields
scanLogUnlisted(cellCount, result, extractedData) ==
  << LogEntry("sheet", << >>), LogEntry("cells", cellCount) >>
  \o LogEntries("search", result.searches)
  \o LogEntries("detail", result.extractionDetails)
  \o (IF DOMAIN extractedData # {}
        THEN << LogEntry("success", Cardinality(DOMAIN extractedData)) >>
        ELSE << LogEntry("none", << >>) >>)

\* what one extraction appends to the log after the workbook was read
scanLog(cellCount, result, extractedData) ==
  << LogEntry("sheet", << >>), LogEntry("cells", cellCount) >>
  \o LogEntries("search", result.searches)
  \o LogEntries("detail", result.extractionDetails)
  \o (IF DOMAIN extractedData # {}
        THEN << LogEntry("success", Cardinality(DOMAIN extractedData)),
                LogEntry("extracted", extractedData) >>
        ELSE << LogEntry("none", << >>) >>)

\* the end of a run that read the workbook: the log, and the merge into
\* formData or the error
scanned(cellCount, result, extractedData) ==
  /\ extractionLog' = extractionLog \o scanLog(cellCount, result, extractedData)
  /\ lastExtracted' = extractedData
  /\ IF DOMAIN extractedData # {}
       THEN /\ formData' = mergeExtracted(formData, extractedData)
            /\ UNCHANGED errors
       ELSE /\ errors' = WithKey(errors, "file", NothingExtracted)
            /\ UNCHANGED formData
scannedResult(cellCount, result) ==
  scanned(cellCount, result, Assigned(result.extractionDetails))
scannedMap(cellMap) == scannedResult(Cardinality(DOMAIN cellMap), scan(cellMap))

\* a variant whose catch block keeps no other error
finishRunAlone(file) ==
  IF ~file.readable
    THEN /\ extractionLog' = Append(extractionLog, LogEntry("error", << >>))
         /\ errors' = [file |-> FileUnreadable]
         /\ UNCHANGED << formData, lastExtracted >>
    ELSE scannedMap(cellMapOf(file.sheet))

\* the end of a run on the given file: the catch block when it cannot be read
finishRun(file) ==
  IF ~file.readable
    THEN /\ extractionLog' = Append(extractionLog, LogEntry("error", << >>))
         /\ errors' = WithKey(errors, "file", FileUnreadable)
         /\ UNCHANGED << formData, lastExtracted >>
    ELSE scannedMap(cellMapOf(file.sheet))

\* extractDataFromExcel from the first await to its end, for the i-th call in flight
extractDataFromExcel(i) ==
  /\ i \in DOMAIN reading
  /\ reading' = SubSeq(reading, 1, i - 1) \o SubSeq(reading, i + 1, Len(reading))
  /\ isProcessingFile' = FALSE
  /\ finishRun(reading[i])
  /\ UNCHANGED << editRecord, uploadedFile, isSubmitting, showSuccessAnimation, submitPc,
                  submitted, requests >>
  /\ UNCHANGED << viewVars, storeVars >>

\* the file input is rendered only while no file is shown as uploaded and no
\* extraction is running
\* a variant in which the input is always there
fileInputAlways == TRUE

fileInputShown ==
  /\ uploadedFile = NoFile
  /\ ~(editRecord # NoRecord /\ "uploadedInvoice" \in DOMAIN editRecord
         /\ ~Falsy(editRecord.uploadedInvoice))
  /\ ~isProcessingFile

\* removeFile: the X button beside the uploaded file
removeFile ==
  /\ uploadedFile' = NoFile
  /\ extractionLog' = << >>
  /\ errors' = WithoutKey(errors, "file")
  /\ UNCHANGED << editRecord, formData, isProcessingFile, isSubmitting, showSuccessAnimation,
                  reading, submitPc, submitted, requests, lastExtracted >>
  /\ UNCHANGED << viewVars, storeVars >>

\* handleSubmit up to its first await: the submit button is enabled only
\* while neither isProcessingFile nor isSubmitting
handleSubmit ==
  /\ ~isProcessingFile /\ ~isSubmitting
  /\ LET newErrors == requiredErrors(formData)
     IN  /\ errors' = newErrors
         /\ IF DOMAIN newErrors # {}
              THEN /\ isSubmitting' = FALSE
                   /\ UNCHANGED << submitPc, submitted >>
              ELSE /\ isSubmitting' = TRUE
                   /\ submitPc' = "waiting"
                   /\ submitted' = formData
  /\ UNCHANGED << editRecord, formData, uploadedFile, isProcessingFile, extractionLog,
                  showSuccessAnimation, reading, requests, lastExtracted >>
  /\ UNCHANGED << viewVars, storeVars >>

\* handleSubmit after the first timer: the record is built and stored; the
\* storage call resolves (ok) or rejects, and a rejection ends handleSubmit
submitSave(ok) ==
  /\ submitPc = "waiting"
  /\ LET record == recordOf(submitted, editRecord)
     IN  requests' = Append(requests,
                       [op |-> IF editRecord # NoRecord THEN "updatePQRecord" ELSE "savePQRecord",
                        id |-> record.id, row |-> rowOf(record)])
  /\ IF ok \/ editRecord # NoRecord
       THEN submitPc' = "saved" /\ showSuccessAnimation' = TRUE
       ELSE submitPc' = "failed" /\ UNCHANGED showSuccessAnimation
  /\ UNCHANGED << editRecord, formData, uploadedFile, errors, isProcessingFile, extractionLog,
                  isSubmitting, reading, submitted, lastExtracted >>
  /\ UNCHANGED << viewVars, storeVars >>

\* handleSubmit's second timer
submitDone ==
  /\ submitPc = "saved"
  /\ submitPc' = "idle"
  /\ isSubmitting' = FALSE
  /\ showSuccessAnimation' = FALSE
  /\ IF editRecord = NoRecord
       THEN formData' = resetFormData /\ uploadedFile' = NoFile /\ extractionLog' = << >>
       ELSE UNCHANGED << formData, uploadedFile, extractionLog >>
  /\ UNCHANGED << editRecord, errors, isProcessingFile, reading, submitted, requests, lastExtracted >>
  /\ UNCHANGED << viewVars, storeVars >>

(***************************************************************************)
(* RecordsView: filteredAndSortedRecords                                   *)
(***************************************************************************)
\* the characters of the model in UTF-16 code unit order
CodeOrder ==
  <<" ", "#", ",", "-", ".", "/">> \o Digits \o <<":">> \o UpperAlpha \o <<"[", "]">> \o LowerAlpha
CodeOf(c) == CHOOSE i \in DOMAIN CodeOrder : CodeOrder[i] = c

\* a < b for strings: the first differing code unit decides, a proper prefix is smaller
StringLess(a, b) ==
  \E p \in 1..(Len(b)) :
    /\ \A k \in 1..(p - 1) : k <= Len(a) /\ a[k] = b[k]
    /\ \/ p = Len(a) + 1
       \/ p <= Len(a) /\ CodeOf(a[p]) < CodeOf(b[p])
StringLeq(a, b) == a = b \/ StringLess(a, b)

RecordKeys ==
  {"id", "created_at", "updated_at", "date", "shipper_name", "buyer", "invoice_number",
   "commodity", "shipping_bill_received", "pq_status", "pq_hardcopy", "permit_copy_status",
   "destination_port", "remarks", "files"}

\* record[key]: undefined for a key the record does not have
Field(record, key) == IF key \in DOMAIN record THEN record[key] ELSE JsUndefined

matchesSearch(record, term) ==
  \/ Falsy(term)
  \/ \E key \in DOMAIN record :
       IsString(record[key]) /\ includes(toLowerCase(record[key]), toLowerCase(term))

matchesFilters(record, fs) ==
  \A key \in DOMAIN fs : Falsy(fs[key]) \/ Field(record, key) = fs[key]

\* a variant with exclusive bounds
matchesDateRangeExclusive(record, range) ==
  /\ Falsy(range.start) \/ StringLess(range.start, record.date)
  /\ Falsy(range.end) \/ StringLess(record.date, range.end)

matchesDateRange(record, range) ==
  /\ Falsy(range.start) \/ StringLeq(range.start, record.date)
  /\ Falsy(range.end) \/ StringLeq(record.date, range.end)

\* Complete scenario: Shipping Bill = Yes, PQ Status = Received, Permit = Received OR Not Required
isComplete(record) ==
  /\ record.shipping_bill_received = JsTrue
  /\ record.pq_status = stReceived
  /\ record.permit_copy_status \in {stReceived, stNotRequired}

matchesSection(record, section) ==
  CASE section = "pending" -> ~isComplete(record)
    [] section = "received" -> isComplete(record)
    [] section = "hardcopyMissing" -> OrElse(record.pq_hardcopy, stNotReceived) = stNotReceived
    [] OTHER -> TRUE

\* new Date(date).getTime() of a YYYY-MM-DD date, up to a monotone rescaling:
\* the comparator only uses the sign of a difference
getTime(date) ==
  (DigitsValue(SubSeq(date, 1, 4)) * 12 + DigitsValue(SubSeq(date, 6, 7))) * 31
    + DigitsValue(SubSeq(date, 9, 10))

\* a.localeCompare(b) in the default collation: letters compare without case
\* first, then lower case sorts before upper case
CollationOrder ==
  <<" ", ",", "-", ".", "/", ":", "[", "]", "#">> \o Digits \o LowerAlpha
CollationOf(c) == CHOOSE i \in DOMAIN CollationOrder : CollationOrder[i] = LowerChar(c)
PrimaryLess(a, b) ==
  \E p \in 1..(Len(b)) :
    /\ \A k \in 1..(p - 1) : k <= Len(a) /\ CollationOf(a[k]) = CollationOf(b[k])
    /\ \/ p = Len(a) + 1
       \/ p <= Len(a) /\ CollationOf(a[p]) < CollationOf(b[p])
CaseLess(a, b) ==
  \E p \in 1..Len(a) :
    /\ \A k \in 1..(p - 1) : a[k] = b[k]
    /\ IsLower(a[p]) /\ IsUpper(b[p])
localeCompare(a, b) ==
  IF a = b THEN 0
  ELSE IF PrimaryLess(a, b) THEN -1
  ELSE IF PrimaryLess(b, a) THEN 1
  ELSE IF CaseLess(a, b) THEN -1 ELSE 1

\* a variant that never tells two records apart
compareRecordsEqual(a, b, by, order) == 0

\* the comparator of filtered.sort
compareRecords(a, b, by, order) ==
  LET aValue == IF by = "date" THEN getTime(a.date) ELSE Field(a, by)
      bValue == IF by = "date" THEN getTime(b.date) ELSE Field(b, by)
      modifier == IF order = "asc" THEN 1 ELSE -1
  IN  IF by = "date" THEN (aValue - bValue) * modifier
      ELSE IF IsString(aValue) /\ IsString(bValue) THEN localeCompare(aValue, bValue) * modifier
      ELSE 0

\* Array.prototype.sort is stable: insertion of each element after the last
\* element that does not compare greater
RECURSIVE sorted(_, _, _)
sorted(list, by, order) ==
  IF list = << >> THEN << >>
  ELSE LET front == sorted(SubSeq(list, 1, Len(list) - 1), by, order)
           x == list[Len(list)]
           k == IF \E i \in DOMAIN front : compareRecords(front[i], x, by, order) > 0
                  THEN (CHOOSE i \in DOMAIN front :
                          /\ compareRecords(front[i], x, by, order) > 0
                          /\ \A j \in 1..(i - 1) : compareRecords(front[j], x, by, order) <= 0) - 1
                  ELSE Len(front)
       IN  SubSeq(front, 1, k) \o << x >> \o SubSeq(front, k + 1, Len(front))

passes(record) ==
  /\ matchesSearch(record, searchTerm)
  /\ matchesFilters(record, filters)
  /\ matchesDateRange(record, dateRange)
  /\ matchesSection(record, activeSection)

filteredAndSortedRecords == sorted(SelectSeq(records, passes), sortBy, sortOrder)

\* the counts on the section buttons
\* a variant that counts every record as pending
pendingCountAll == Len(records)

pendingCount == Len(SelectSeq(records, LAMBDA record : ~isComplete(record)))
receivedCount == Len(SelectSeq(records, isComplete))
hardcopyMissingCount ==
  Len(SelectSeq(records, LAMBDA record : OrElse(record.pq_hardcopy, stNotReceived) = stNotReceived))
currentSectionCount == Len(filteredAndSortedRecords)

(***************************************************************************)
(* RecordsView: handlers                                                   *)
(***************************************************************************)
\* the effect on initialFilter, run when the view is mounted
initialFilterEffect(initialFilter) ==
  IF "pq_status" \in DOMAIN initialFilter /\ ~Falsy(initialFilter.pq_status)
    THEN IF initialFilter.pq_status = <<"i","n","c","o","m","p","l","e","t","e">>
           THEN [section |-> "pending", filters |-> EmptyObject]
         ELSE IF initialFilter.pq_status = stPending
           THEN [section |-> "pending", filters |-> [pq_status |-> stPending]]
         ELSE IF initialFilter.pq_status = stReceived
           THEN [section |-> "received", filters |-> [pq_status |-> stReceived]]
         ELSE [section |-> "all", filters |-> EmptyObject]
  ELSE IF "pq_hardcopy" \in DOMAIN initialFilter /\ initialFilter.pq_hardcopy = stNotReceived
    THEN [section |-> "hardcopyMissing", filters |-> [pq_hardcopy |-> stNotReceived]]
  ELSE [section |-> "all", filters |-> EmptyObject]

\* onChange of the search box
setSearchTerm(value) ==
  /\ searchTerm' = value
  /\ UNCHANGED << viewMode, records, filters, sortBy, sortOrder, activeSection, dateRange >>
  /\ UNCHANGED << formVars, storeVars >>

\* onChange of the From Date / To Date inputs
setDateRange(bound, value) ==
  /\ dateRange' = [dateRange EXCEPT ![bound] = value]
  /\ UNCHANGED << viewMode, records, filters, searchTerm, sortBy, sortOrder, activeSection >>
  /\ UNCHANGED << formVars, storeVars >>

\* onChange of a filter select: setFilters({ ...filters, [key]: value || undefined })
setFilter(key, value) ==
  /\ filters' = WithKey(filters, key, OrElse(value, JsUndefined))
  /\ UNCHANGED << viewMode, records, searchTerm, sortBy, sortOrder, activeSection, dateRange >>
  /\ UNCHANGED << formVars, storeVars >>

\* the options of the three filter selects
uniqueShipperNames ==
  {records[i].shipper_name : i \in {j \in DOMAIN records :
      ~Falsy(records[j].shipper_name) /\ trim(records[j].shipper_name) # << >>}}
selectOptions(key) ==
  CASE key = "shipper_name" -> {<< >>} \cup uniqueShipperNames
    [] key = "shipping_bill_received" -> {<< >>, stYes, stNo}
    [] key = "pq_hardcopy" -> {<< >>, stReceived, stNotReceived}

clearAllFilters ==
  /\ filters' = EmptyObject
  /\ searchTerm' = << >>
  /\ dateRange' = [start |-> << >>, end |-> << >>]
  /\ activeSection' = "all"
  /\ UNCHANGED << viewMode, records, sortBy, sortOrder >>
  /\ UNCHANGED << formVars, storeVars >>

\* a variant that clears every filter
handleSectionChangeClearing(section) ==
  /\ activeSection' = section
  /\ filters' = EmptyObject
  /\ UNCHANGED << viewMode, records, searchTerm, sortBy, sortOrder, dateRange >>
  /\ UNCHANGED << formVars, storeVars >>

handleSectionChange(section) ==
  /\ activeSection' = section
  /\ filters' = WithoutKey(WithoutKey(filters, "pq_status"), "pq_hardcopy")
  /\ UNCHANGED << viewMode, records, searchTerm, sortBy, sortOrder, dateRange >>
  /\ UNCHANGED << formVars, storeVars >>

(***************************************************************************)
(* storage: the calls on the pq_records table                              *)
(***************************************************************************)
\* a number as JSON writes it
RECURSIVE DecimalOf(_)
DecimalOf(n) ==
  IF n < 10 THEN << Digits[n + 1] >>
  ELSE Append(DecimalOf(n \div 10), Digits[(n % 10) + 1])
NumberText(n) == IF n < 0 THEN << "-" >> \o DecimalOf(-n) ELSE DecimalOf(n)
\* what a TEXT column takes from the number sent: NaN is written as null
columnText(n) == IF n.nan THEN JsNull ELSE NumberText(n.value)
\* the column values of the row sent
columnsOf(sent) == [sent EXCEPT !.invoice_number = columnText(sent.invoice_number)]

\* the constraints of pq_records on a row that takes the place of row k
\* (k = 0: a new row): NOT NULL columns and invoice_number UNIQUE
NotNullColumns == {"shipper_name", "buyer", "invoice_number", "commodity"}
\* a variant without the UNIQUE constraint
violatesNotNull(rows, k, row) ==
  \E c \in NotNullColumns : row[c] \in {JsNull, JsUndefined}

violates(rows, k, row) ==
  \/ \E c \in NotNullColumns : row[c] \in {JsNull, JsUndefined}
  \/ \E j \in DOMAIN rows : j # k /\ rows[j].invoice_number = row.invoice_number

\* the error of a refused row: not_null_violation before unique_violation
NotNullViolation == "23502"
UniqueViolation == "23505"
Errors == {NotNullViolation, UniqueViolation}
errorOf(row) ==
  IF \E c \in NotNullColumns : row[c] \in {JsNull, JsUndefined}
    THEN NotNullViolation ELSE UniqueViolation

\* id UUID DEFAULT uuid_generate_v4(): an id no row ever had
Uuid(n) == << "u" >> \o DecimalOf(n)

\* .insert(row).select('id'), and "if (error) throw error": the promise is
\* rejected with the error
insertRow(row) ==
  IF violates(table, 0, row)
    THEN outcome' = errorOf(row) /\ UNCHANGED << table, issued >>
    ELSE /\ table' = Append(table, WithKey(row, "id", Uuid(issued + 1)))
         /\ issued' = issued + 1
         /\ outcome' = "resolved"
savePQRecord(record) == insertRow(columnsOf(rowOf(record)))

\* .update(row).eq('id', id): the error of a refused update is not read; the
\* trigger sets updated_at
updateRow(id, row) ==
  /\ table' = [k \in DOMAIN table |->
                 IF table[k].id = id /\ ~violates(table, k, row)
                   THEN WithKey(WithKey(row, "id", id), "updated_at", Today)
                   ELSE table[k]]
  /\ outcome' = "resolved"
  /\ UNCHANGED issued
updatePQRecord(id, record) == updateRow(id, columnsOf(rowOf(record)))

\* .delete().eq('id', id)
deletePQRecord(id) ==
  /\ table' = SelectSeq(table, LAMBDA row : row.id # id)
  /\ outcome' = "resolved"
  /\ UNCHANGED issued

\* getAllPQRecords, as the records prop of the view
getAllPQRecords ==
  /\ records' = table
  /\ UNCHANGED << filters, searchTerm, sortBy, sortOrder, activeSection, dateRange, viewMode >>
  /\ UNCHANGED << formVars, storeVars >>

(***************************************************************************)
(* RecordsView: the record buttons                                         *)
(***************************************************************************)
isRecordCompleted(record) ==
  /\ record.shipping_bill_received = JsTrue
  /\ record.pq_status = stReceived
  /\ record.permit_copy_status \in {stReceived, stNotRequired}

\* handleMarkCompleted: updatedRecord
updatedRecord(record) ==
  [record EXCEPT !.shipping_bill_received = JsTrue, !.pq_status = stReceived]

\* handleMarkCompleted, with the answer given to window.confirm
handleMarkCompleted(record, confirmed) ==
  /\ IF confirmed THEN savePQRecord(updatedRecord(record)) ELSE UNCHANGED storeVars
  /\ UNCHANGED << viewVars, formVars >>

\* handleDelete, with the answer given to window.confirm
handleDelete(id, confirmed) ==
  /\ IF confirmed THEN deletePQRecord(id) ELSE UNCHANGED storeVars
  /\ UNCHANGED << viewVars, formVars >>

\* onChange of the two sort selects and of the view toggle
setSortBy(value) ==
  /\ sortBy' = value
  /\ UNCHANGED << records, filters, searchTerm, sortOrder, activeSection, dateRange, viewMode >>
  /\ UNCHANGED << formVars, storeVars >>
setSortOrder(value) ==
  /\ sortOrder' = value
  /\ UNCHANGED << records, filters, searchTerm, sortBy, activeSection, dateRange, viewMode >>
  /\ UNCHANGED << formVars, storeVars >>
setViewMode(value) ==
  /\ viewMode' = value
  /\ UNCHANGED << records, filters, searchTerm, sortBy, sortOrder, activeSection, dateRange >>
  /\ UNCHANGED << formVars, storeVars >>

\* the values of the options of the sort selects
sortByOptions == {"createdAt", "date", "shipperName", "buyer", "destinationPort", "pqStatus"}
sortOrderOptions == {"desc", "asc"}
ViewModes == {"details", "list"}

Sections == {"all", "pending", "received", "hardcopyMissing"}

(***************************************************************************)
(* Bounded inputs                                                          *)
(***************************************************************************)
\* cell texts of an invoice sheet
txExporter == <<"E","x","p","o","r","t","e","r">>
txConsignee == <<"C","o","n","s","i","g","n","e","e",":">>
txInvoiceNo == <<"I","n","v","o","i","c","e"," ","N","o">>
txFinalDest == <<"F","i","n","a","l"," ","D","e","s","t","i","n","a","t","i","o","n">>
txInvoiceDated == <<"R","T","C","/","0","3","7","/","2","0","2","5","-","2","6"," ","D","T",":"," ","0","1",".","0","7">>
txColomboSpices == <<"C","o","l","o","m","b","o"," ","S","p","i","c","e","s">>
txNepal == <<" ","N","e","p","a","l">>
txOriginLanka == <<"O","r","i","g","i","n"," ","S","r","i"," ","L","a","n","k","a">>
txBlank == <<" "," ">>
CellTexts ==
  {txExporter, txConsignee, txInvoiceNo, txFinalDest, txInvoiceDated, txColomboSpices,
   txNepal, txOriginLanka, txBlank}

\* the sheet has rows 0..MaxRow and columns 0..MaxCol, and the first two cells
\* of the range M10:X10 (which also lie in the M4+ area)
MaxRow == 2
MaxCol == 1
MaxCells == 3
SheetCells ==
  ((0..MaxRow) \X (0..MaxCol)) \cup {<<RangeRow, RangeFirstCol>>, <<RangeRow, RangeFirstCol + 1>>}

\* jsonData: the cells of filled hold the given texts, every other cell is '' (defval)
Sheet(filled, text) == [a \in SheetCells |-> IF a \in filled THEN text[a] ELSE << >>]
\* the sets of at most MaxCells cells
Fillings == {f \in SUBSET SheetCells : Cardinality(f) <= MaxCells}

nameXlsx == <<"a",".","x","l","s","x">>
File(name, readable, sheet) == [name |-> name, readable |-> readable, sheet |-> sheet]

\* what a user types into a text field
txTyped == <<"A","b","c">>
TypedTexts == {<< >>, <<" ">>, txTyped}
TypedForm ==
  [initialFormData EXCEPT !.shipper_name = txTyped, !.buyer = txTyped,
                          !.invoice_number = txTyped, !.commodity = txTyped,
                          !.destination_port = txTyped, !.remarks = txTyped,
                          !.pq_status = stReceived]

\* stored records
PQ(id, created_at, date, shipper_name, bill, pq_status, pq_hardcopy, permit) ==
  [id |-> id, created_at |-> created_at, updated_at |-> created_at, date |-> date,
   shipper_name |-> shipper_name,
   buyer |-> <<"L","a","n","k","a"," ","F","o","o","d","s">>,
   invoice_number |-> <<"R","T","C","/","0","3","7","/","2","0","2","5","-","2","6">>,
   commodity |-> <<"D","r","y"," ","C","h","i","l","l","i","e","s">>,
   shipping_bill_received |-> bill, pq_status |-> pq_status, pq_hardcopy |-> pq_hardcopy,
   permit_copy_status |-> permit, destination_port |-> SRI_LANKA, remarks |-> << >>,
   files |-> JsEmptyArray]
shipAcme == <<"A","c","m","e">>
shipZed == <<"z","e","d"," ","c","o">>
dateEarly == <<"2","0","2","5","-","0","6","-","3","0">>
dateLate == <<"2","0","2","5","-","0","7","-","0","2">>
createdEarly == <<"2","0","2","5","-","0","6","-","3","0","T","1","0",":","0","0">>
createdLate == <<"2","0","2","5","-","0","7","-","0","2","T","0","9",":","3","0">>
recA == PQ(<<"r","1">>, createdEarly, dateEarly, shipAcme, JsTrue, stReceived, stReceived, stNotRequired)
recB == PQ(<<"r","2">>, createdLate, dateLate, shipZed, JsFalse, stPending, stNotReceived, stNotReceived)
recC == PQ(<<"r","3">>, createdLate, dateEarly, shipAcme, JsTrue, stReceived, JsNull, stNotReceived)
recD == PQ(<<"r","4">>, createdEarly, dateLate, shipZed, JsFalse, stReceived, stReceived, stReceived)
RecordPool == {recA, recB, recC, recD}

MaxRecords == 2
RecordLists ==
  UNION {{l \in [1..n -> RecordPool] : \A i, j \in 1..n : l[i] = l[j] => i = j} :
         n \in 0..MaxRecords}

\* the initialFilter prop the dashboard passes
InitialFilters ==
  {EmptyObject, [pq_status |-> <<"i","n","c","o","m","p","l","e","t","e">>],
   [pq_status |-> stPending], [pq_status |-> stReceived], [pq_hardcopy |-> stNotReceived]}

SearchTerms == {<< >>, <<"A","C">>}
DateInputs == {<< >>, dateEarly, dateLate}

(***************************************************************************)
(* Specifications                                                          *)
(***************************************************************************)
FormMounted(edited, data) ==
  /\ editRecord = edited
  /\ formData = data
  /\ uploadedFile = NoFile
  /\ errors = EmptyObject
  /\ isProcessingFile = FALSE
  /\ extractionLog = << >>
  /\ isSubmitting = FALSE
  /\ showSuccessAnimation = FALSE
  /\ reading = << >>
  /\ submitPc = "idle"
  /\ submitted = initialFormData
  /\ requests = << >>
  /\ lastExtracted = EmptyObject

ViewMounted(list, initialFilter) ==
  /\ records = list
  /\ filters = initialFilterEffect(initialFilter).filters
  /\ searchTerm = << >>
  /\ sortBy = "created_at"
  /\ sortOrder = "desc"
  /\ activeSection = initialFilterEffect(initialFilter).section
  /\ dateRange = [start |-> << >>, end |-> << >>]
  /\ viewMode = "details"

\* the table as the storage client finds it, before any call
StoreMounted(rows) ==
  /\ table = rows
  /\ issued = Len(rows)
  /\ outcome = "none"

\* the entry form: typing and submitting
MaxRequests == 1
InitForm ==
  /\ \E edited \in {NoRecord, recB} :
       FormMounted(edited, IF edited = NoRecord THEN initialFormData ELSE editFormData(edited))
  /\ ViewMounted(<< >>, EmptyObject)
  /\ StoreMounted(<< >>)

Type ==
  /\ Len(requests) < MaxRequests
  /\ \E i \in DOMAIN RequiredFields : \E value \in TypedTexts :
       handleInputChange(RequiredFields[i], value)

Extract == \E i \in DOMAIN reading : extractDataFromExcel(i)

Submit == Len(requests) < MaxRequests /\ handleSubmit

SubmitSave == \E ok \in BOOLEAN : submitSave(ok)

SubmitDone == submitDone

NextForm == Type \/ Submit \/ SubmitSave \/ SubmitDone

SpecForm == InitForm /\ [][NextForm]_vars

\* one extraction run over every sheet, on a form the user has typed into
InitExtract ==
  /\ FormMounted(NoRecord, TypedForm)
  /\ ViewMounted(<< >>, EmptyObject)
  /\ StoreMounted(<< >>)

UploadSheet ==
  /\ uploadedFile = NoFile
  /\ \E filled \in Fillings : \E text \in [filled -> CellTexts] :
       handleFileUpload(File(nameXlsx, TRUE, Sheet(filled, text)))

NextExtract == UploadSheet \/ Extract

SpecExtract == InitExtract /\ [][NextExtract]_vars

\* the records list under the search box, the date range, the filter selects
\* and the section buttons
InitView ==
  /\ FormMounted(NoRecord, initialFormData)
  /\ \E list \in RecordLists : \E initialFilter \in InitialFilters :
       ViewMounted(list, initialFilter)
  /\ StoreMounted(<< >>)

Search == \E value \in SearchTerms : setSearchTerm(value)

DateRange == \E bound \in {"start", "end"} : \E value \in DateInputs : setDateRange(bound, value)

Filter ==
  \E key \in {"shipper_name", "shipping_bill_received", "pq_hardcopy"} :
    \E value \in selectOptions(key) : setFilter(key, value)

ClearAllFilters == clearAllFilters

SectionChange == \E section \in Sections : handleSectionChange(section)

NextView == Search \/ DateRange \/ Filter \/ ClearAllFilters \/ SectionChange

SpecView == InitView /\ [][NextView]_vars

\* the sort selects, over lists of records that differ in every sortable field
recE ==
  [recC EXCEPT !.buyer = <<"b","e","t","a">>, !.destination_port = <<"N","E","P","A","L">>,
               !.pq_status = stPending]
SortPool == {recA, recB, recE}
SortLists ==
  UNION {{l \in [1..n -> SortPool] : \A i, j \in 1..n : l[i] = l[j] => i = j} :
         n \in 0..MaxRecords}

InitSort ==
  /\ FormMounted(NoRecord, initialFormData)
  /\ \E list \in SortLists : ViewMounted(list, EmptyObject)
  /\ StoreMounted(<< >>)

SortBy == \E value \in sortByOptions : setSortBy(value)

SortOrder == \E value \in sortOrderOptions : setSortOrder(value)

NextSort == SortBy \/ SortOrder

SpecSort == InitSort /\ [][NextSort]_vars

\* every control of the toolbar, over one list of records
InitControls ==
  /\ FormMounted(NoRecord, initialFormData)
  /\ \E initialFilter \in {EmptyObject, [pq_status |-> stPending]} :
       ViewMounted(<< recA, recB >>, initialFilter)
  /\ StoreMounted(<< >>)

ViewMode == \E value \in ViewModes : setViewMode(value)

NextControls == Search \/ DateRange \/ Filter \/ SortBy \/ SortOrder \/ ViewMode \/ SectionChange

SpecControls == InitControls /\ [][NextControls]_vars

\* the section buttons alone, on a view opened from the dashboard
NextSections == SectionChange

SpecSections == InitView /\ [][NextSections]_vars

\* uploads of readable and unreadable workbooks, on a form that is typed into
\* and submitted with required fields missing
UploadCells == {<< 0, 0 >>}
UploadTexts == {txBlank, txInvoiceNo, txNepal}

InitUpload ==
  /\ FormMounted(NoRecord, initialFormData)
  /\ ViewMounted(<< >>, EmptyObject)
  /\ StoreMounted(<< >>)

TypeShipper == \E value \in TypedTexts : handleInputChange("shipper_name", value)

Upload ==
  /\ reading = << >>
  /\ \E text \in [UploadCells -> UploadTexts] : \E readable \in BOOLEAN :
       handleFileUpload(File(nameXlsx, readable, Sheet(UploadCells, text)))

NextUpload == TypeShipper \/ Submit \/ Upload \/ Extract

SpecUpload == InitUpload /\ [][NextUpload]_vars

\* uploads through the file input, removals and submits, on a filled form
namePdf == <<"a",".","p","d","f">>
InitProcessing ==
  /\ FormMounted(NoRecord, TypedForm)
  /\ ViewMounted(<< >>, EmptyObject)
  /\ StoreMounted(<< >>)

ChooseFile ==
  /\ fileInputShown
  /\ \E name \in {nameXlsx, namePdf} : \E text \in [UploadCells -> UploadTexts] :
       \E readable \in BOOLEAN :
         handleFileUpload(File(name, readable, Sheet(UploadCells, text)))

RemoveFile == uploadedFile # NoFile /\ removeFile

NextProcessing == ChooseFile \/ RemoveFile \/ Extract \/ Submit \/ SubmitSave \/ SubmitDone

SpecProcessing == InitProcessing /\ [][NextProcessing]_vars

\* the table: records saved by the form, loaded by the view, marked and deleted there
invNumber == <<"3","7">>
invZeroNumber == <<"0","3","7">>
invDozen == <<"1","2"," ","b">>
invDocumented == <<"R","T","C","/","0","3","7","/","2","0","2","5","-","2","6">>
newA == [recA EXCEPT !.invoice_number = invDocumented]
newB == [recB EXCEPT !.invoice_number = invNumber]
newC == [recC EXCEPT !.invoice_number = invDozen]
newD == [recD EXCEPT !.invoice_number = invZeroNumber]
NewRecords == {newA, newB, newC, newD}
MaxIssued == 2

InitTable ==
  /\ FormMounted(NoRecord, initialFormData)
  /\ ViewMounted(<< >>, EmptyObject)
  /\ StoreMounted(<< >>)

\* the form saves a new record, or an edited one under the id of a loaded record
Save ==
  /\ issued < MaxIssued
  /\ \E record \in NewRecords : savePQRecord(record)
  /\ UNCHANGED << viewVars, formVars >>

Update ==
  /\ \E i \in DOMAIN records : \E record \in NewRecords : updatePQRecord(records[i].id, record)
  /\ UNCHANGED << viewVars, formVars >>

MarkCompleted ==
  /\ issued < MaxIssued
  /\ \E i \in DOMAIN records : \E confirmed \in BOOLEAN :
       ~isRecordCompleted(records[i]) /\ handleMarkCompleted(records[i], confirmed)

Delete ==
  \E i \in DOMAIN records : \E confirmed \in BOOLEAN : handleDelete(records[i].id, confirmed)

NextTable == Save \/ Update \/ getAllPQRecords \/ MarkCompleted \/ Delete

SpecTable == InitTable /\ [][NextTable]_vars

\* C13: a confirmed "Mark as completed" sets shipping_bill_received and
\* pq_status 'Received' on the stored row of the same id, leaves its other
\* fields and the number of rows as they were; a declined one writes nothing
Marked(record) ==
  /\ Len(table') = Len(table)
  /\ \E k \in DOMAIN table : table[k].id = record.id
  /\ \A k \in DOMAIN table :
       table'[k] = IF table[k].id = record.id
                     THEN [table[k] EXCEPT !.shipping_bill_received = JsTrue,
                                           !.pq_status = stReceived]
                     ELSE table[k]
C13_MarkCompletedUpdatesStoredRow ==
  [][\A i \in DOMAIN records : \A confirmed \in BOOLEAN :
       (~isRecordCompleted(records[i]) /\ handleMarkCompleted(records[i], confirmed))
         => IF confirmed THEN Marked(records[i]) ELSE table' = table]_vars
\* a loaded record that is not completed, whose row is stored
C13_Witness ==
  \E i \in DOMAIN records : \E k \in DOMAIN table :
    ~isRecordCompleted(records[i]) /\ table[k] = records[i]
\* what the code does have: a declined one writes nothing, and a confirmed one
\* never changes a stored row
C13_MarkCompletedOnlyInserts ==
  [][\A i \in DOMAIN records : \A confirmed \in BOOLEAN :
       (~isRecordCompleted(records[i]) /\ handleMarkCompleted(records[i], confirmed))
         => /\ ~confirmed => table' = table
            /\ \A k \in DOMAIN table : table'[k] = table[k]]_vars

\* C14: no two rows of the table have the same invoice_number, whatever was
\* inserted, updated and deleted; an insert that would repeat one fails,
\* leaves the table as it was, and savePQRecord rejects
Repeats(record) ==
  \E k \in DOMAIN table :
    table[k].invoice_number = columnsOf(rowOf(record)).invoice_number
C14_InvoiceNumbersUnique ==
  /\ [](\A j, k \in DOMAIN table :
          j # k => table[j].invoice_number # table[k].invoice_number)
  /\ [][\A record \in NewRecords :
          (Repeats(record) /\ savePQRecord(record))
            => (table' = table /\ outcome' \in Errors)]_vars
\* an insert was refused for its invoice_number
C14_Witness == outcome = UniqueViolation /\ Len(table) >= 1

\* C15: the invoice_number sent by savePQRecord and updatePQRecord is the
\* record's trimmed invoice_number, as a number or as text: never NaN, never
\* a prefix cut from it
C15_InvoiceNumberSurvives ==
  (submitPc \in {"saved", "failed"} /\ requests # << >>)
    => columnText(requests[Len(requests)].row.invoice_number) = trim(submitted.invoice_number)
\* a submitted form whose record was sent
C15_Witness ==
  /\ submitPc \in {"saved", "failed"}
  /\ requests # << >>
  /\ trim(submitted.invoice_number) # << >>
\* what is sent is what parseInt reads from the trimmed text
C15_SentIsParsedInteger ==
  (submitPc \in {"saved", "failed"} /\ requests # << >>)
    => requests[Len(requests)].row.invoice_number = parseInt10(trim(submitted.invoice_number))

Init == InitForm
Next == NextForm
Spec == SpecForm

(***************************************************************************)
(* Claims                                                                  *)
(***************************************************************************)
\* a text is empty or consists of blanks only
OnlyBlanks(text) == \A i \in 1..Len(text) : text[i] = " "
BlankRequired(data) ==
  {RequiredFields[i] : i \in {j \in DOMAIN RequiredFields : OnlyBlanks(data[RequiredFields[j]])}}

\* C1: a handleSubmit step on a form in which some required field is empty or
\* holds only blanks makes no storage call and schedules none, leaves errors
\* with one entry for exactly each such field, and leaves isSubmitting false.
C1_InvalidSubmitPersistsNothing ==
  [][(handleSubmit /\ BlankRequired(formData) # {}) =>
       /\ requests' = requests
       /\ submitPc' = "idle"
       /\ DOMAIN errors' = BlankRequired(formData)
       /\ isSubmitting' = FALSE]_vars

\* C1 witness: a submit was refused for a blank-only invoice number and an
\* empty buyer while the shipper name was filled
C1_Witness ==
  /\ DOMAIN errors = {"invoice_number", "buyer"}
  /\ formData.invoice_number = <<" ">>
  /\ formData.buyer = << >>
  /\ formData.shipper_name = txTyped
  /\ requests = << >>
  /\ ~isSubmitting

\* --- the state after one extraction run (SpecExtract) ---
RunDone == uploadedFile # NoFile /\ reading = << >>
\* the text of a sheet cell as the scan sees it, << >> for a cell that is empty
CellText(a) == IF a \in DOMAIN uploadedFile.sheet THEN trim(uploadedFile.sheet[a]) ELSE << >>
NonEmpty(a) == CellText(a) # << >>
Contains(a, keyword) == includes(toLowerCase(CellText(a)), keyword)
Earlier(a, b) == a[1] < b[1] \/ (a[1] = b[1] /\ a[2] < b[2])
\* the assignments the run logged for a field, in order
DetailsOf(field) ==
  SelectSeq(extractionLog, LAMBDA e : e.kind = "detail" /\ e.info.field = field)
Found(field) == DetailsOf(field) # << >>
LastDetail(field) == DetailsOf(field)[Len(DetailsOf(field))].info
Missing == {f \in TargetFields : ~Found(f)}
LogHas(kind) == \E i \in DOMAIN extractionLog : extractionLog[i].kind = kind

\* C2 as claimed: after a run that found no value for some target field, each
\* such field is named as not found in the extraction log or has an entry in errors.
C2_MissingFieldsReported ==
  RunDone =>
    \A f \in Missing :
      \/ \E i \in DOMAIN extractionLog :
           extractionLog[i].kind = "not found" /\ extractionLog[i].info = f
      \/ f \in DOMAIN errors

\* C2 amended: the run reports the fields it found.  When it found some, the
\* log has one 'Extracted' entry that lists exactly the found fields with the
\* values now in the form (the fields not found are the targets absent from
\* it) and errors.file is not set; when it found none, the log has the 'No
\* recognizable data' entry, no 'Extracted' entry, and errors.file is set.
C2_FoundFieldsReported ==
  RunDone =>
    LET listed == SelectSeq(extractionLog, LAMBDA e : e.kind = "extracted")
    IN  IF Missing = TargetFields
          THEN /\ listed = << >>
               /\ LogHas("none")
               /\ "file" \in DOMAIN errors
          ELSE /\ Len(listed) = 1
               /\ DOMAIN listed[1].info = TargetFields \ Missing
               /\ \A f \in DOMAIN listed[1].info : formData[f] = listed[1].info[f]
               /\ ~LogHas("none")
               /\ "file" \notin DOMAIN errors

\* C2 witness: a run that found the shipper name and nothing else
C2_Witness == RunDone /\ Missing = TargetFields \ {"shipper_name"}

\* C3: within one run each field is assigned at most once, so the destination
\* found by the label search is never replaced by the fallback search.
C3_FirstMatchWins ==
  RunDone => \A f \in TargetFields : Len(DetailsOf(f)) <= 1

\* C4 as claimed: the shipper name is the text of the nearest non-empty cell 1
\* to 3 rows below the first 'exporter' cell, provided that text is longer
\* than 5 characters and does not contain 'consignee'; otherwise none is extracted.
ExporterCells == {a \in DOMAIN uploadedFile.sheet : NonEmpty(a) /\ Contains(a, kwExporter)}
FirstExporter == CHOOSE a \in ExporterCells : \A b \in ExporterCells : ~Earlier(b, a)
ShipperOk(a) ==
  NonEmpty(a) /\ Len(CellText(a)) > 5 /\ ~Contains(a, kwConsignee)
NearestBelow(label, lo, hi, Ok(_)) ==
  LET rows == {i \in lo..hi : Ok(<<label[1] + i, label[2]>>)}
  IN  IF rows = {} THEN NoCell
      ELSE <<label[1] + (CHOOSE i \in rows : \A j \in rows : i <= j), label[2]>>
C4_NearestNonEmptyBelowExporter ==
  RunDone =>
    LET cell == IF ExporterCells = {} THEN NoCell
                ELSE NearestBelow(FirstExporter, 1, 3, NonEmpty)
    IN  IF cell # NoCell /\ ShipperOk(cell)
          THEN Found("shipper_name") /\ formData.shipper_name = CellText(cell)
          ELSE ~Found("shipper_name")

\* C4 amended: the shipper name is the text of the nearest cell 1 to 3 rows
\* below the first 'exporter' cell that is non-empty, longer than 5 characters
\* and without 'consignee' (nearer cells that fail this are passed over); only
\* the first 'exporter' cell is examined, and without such a cell below it no
\* shipper name is extracted.
C4_NearestAcceptedBelowExporter ==
  RunDone =>
    LET cell == IF ExporterCells = {} THEN NoCell
                ELSE NearestBelow(FirstExporter, 1, 3, ShipperOk)
    IN  IF cell # NoCell
          THEN /\ Len(DetailsOf("shipper_name")) = 1
               /\ LastDetail("shipper_name").address = cell
               /\ formData.shipper_name = CellText(cell)
          ELSE ~Found("shipper_name") /\ formData.shipper_name = TypedForm.shipper_name

\* C4 witness: the first 'exporter' cell has nothing acceptable below it, a
\* later one has, and no shipper name was extracted
C4_Witness ==
  /\ RunDone
  /\ Cardinality(ExporterCells) = 2
  /\ \E a \in ExporterCells : a # FirstExporter /\ ShipperOk(<<a[1] + 1, a[2]>>)
  /\ ~Found("shipper_name")

\* C5: the buyer is the text of the first cell at row offsets 0 to 3 in the
\* column of the first 'consignee' cell that is longer than 3 characters and
\* contains neither 'consignee' nor ':'; the range M10:X10 is scanned, left to
\* right, for a text longer than 5 characters without 'invoice', 'date',
\* 'no.' or 'ref', only when the label search produced no buyer.
ConsigneeCells == {a \in DOMAIN uploadedFile.sheet : NonEmpty(a) /\ Contains(a, kwConsignee)}
FirstConsignee == CHOOSE a \in ConsigneeCells : \A b \in ConsigneeCells : ~Earlier(b, a)
BuyerOk(a) ==
  /\ NonEmpty(a) /\ Len(CellText(a)) > 3
  /\ ~Contains(a, kwConsignee) /\ ~Contains(a, <<":">>)
RangeOk(a) ==
  /\ NonEmpty(a) /\ Len(CellText(a)) > 5
  /\ ~Contains(a, kwInvoice) /\ ~Contains(a, kwDate)
  /\ ~Contains(a, kwNoDot) /\ ~Contains(a, kwRef)
RangeHits == {c \in 12..23 : RangeOk(<<9, c>>)}
C5_BuyerFromConsigneeThenRange ==
  RunDone =>
    LET byLabel == IF ConsigneeCells = {} THEN NoCell
                   ELSE NearestBelow(FirstConsignee, 0, 3, BuyerOk)
        byRange == IF RangeHits = {} THEN NoCell
                   ELSE <<9, CHOOSE c \in RangeHits : \A d \in RangeHits : c <= d>>
        cell == IF byLabel # NoCell THEN byLabel ELSE byRange
    IN  /\ LogHas("search") /\ (byLabel # NoCell <=>
             ~\E i \in DOMAIN extractionLog :
                extractionLog[i].kind = "search" /\ extractionLog[i].info = "M10:X10")
        /\ IF cell # NoCell
             THEN /\ Len(DetailsOf("buyer")) = 1
                  /\ LastDetail("buyer").address = cell
                  /\ formData.buyer = CellText(cell)
             ELSE ~Found("buyer") /\ formData.buyer = TypedForm.buyer

\* C5 witness: the label search found the buyer while a cell of M10:X10 also
\* held an acceptable text
C5_Witness ==
  /\ RunDone
  /\ ConsigneeCells # {}
  /\ RangeHits # {}
  /\ Found("buyer")
  /\ LastDetail("buyer").address[1] # 9

\* C6: an invoice number set by the extraction has exactly the form 2-4 upper
\* case letters '/' digits '/' 4 digits '-' 2 digits, is a part of the text of
\* the cell it was taken from, and nothing of what follows it there (such as
\* ' DT: ...') is stored with it.
UpperLetters == {"A","B","C","D","E","F","G","H","I","J","K","L","M","N","O","P","Q","R","S","T","U","V","W","X","Y","Z"}
DecimalDigits == {"0","1","2","3","4","5","6","7","8","9"}
ExactInvoiceForm(v) ==
  \E n \in 2..4 : \E d \in 1..Len(v) :
    /\ Len(v) = n + d + 9
    /\ \A i \in 1..n : v[i] \in UpperLetters
    /\ v[n + 1] = "/"
    /\ \A i \in (n + 2)..(n + d + 1) : v[i] \in DecimalDigits
    /\ v[n + d + 2] = "/"
    /\ \A i \in (n + d + 3)..(n + d + 6) : v[i] \in DecimalDigits
    /\ v[n + d + 7] = "-"
    /\ \A i \in (n + d + 8)..(n + d + 9) : v[i] \in DecimalDigits
PartOf(v, text) ==
  \E p \in 0..(Len(text) - Len(v)) : \A k \in 1..Len(v) : text[p + k] = v[k]
C6_InvoiceNumberHasExactForm ==
  RunDone /\ Found("invoice_number") =>
    /\ ExactInvoiceForm(formData.invoice_number)
    /\ \A i \in DOMAIN DetailsOf("invoice_number") :
         LET detail == DetailsOf("invoice_number")[i].info
         IN  /\ ExactInvoiceForm(detail.value)
             /\ PartOf(detail.value, CellText(detail.address))

\* C6 witness: the invoice number was taken from a cell whose text goes on
\* with a date
C6_Witness ==
  /\ RunDone
  /\ Found("invoice_number")
  /\ Len(CellText(LastDetail("invoice_number").address)) > Len(formData.invoice_number)
  /\ PartOf(<<"D","T",":">>, CellText(LastDetail("invoice_number").address))

\* C7: the destination is never taken from a cell whose text contains
\* 'origin'.  The label search takes it from a cell 1-5 columns right of, or 1
\* row below, a destination label and stores 'SRI LANKA' for a text with SRI
\* LANKA, SRILANKA or COLOMBO and the upper-cased text otherwise; the fallback
\* search stores 'SRI LANKA' for a cell with 'sri lanka' or 'srilanka' and
\* otherwise the upper-cased country name it found in the cell.
CountryNames ==
  {<<"S","R","I"," ","L","A","N","K","A">>, <<"S","R","I","L","A","N","K","A">>,
   <<"B","A","N","G","L","A","D","E","S","H">>, <<"N","E","P","A","L">>,
   <<"P","A","K","I","S","T","A","N">>, <<"M","Y","A","N","M","A","R">>,
   <<"M","A","L","D","I","V","E","S">>}
IsLabelOfDestination(a) ==
  NonEmpty(a) /\ (Contains(a, kwFinalDestination) \/ Contains(a, kwDestinationCountry))
C7_DestinationNotFromOrigin ==
  RunDone =>
    /\ Found("destination_port") => formData.destination_port = LastDetail("destination_port").value
    /\ \A i \in DOMAIN DetailsOf("destination_port") :
         LET detail == DetailsOf("destination_port")[i].info
             text == toUpperCase(CellText(detail.address))
         IN  /\ NonEmpty(detail.address)
             /\ ~Contains(detail.address, kwOrigin)
             /\ IF detail.step = "fallback"
                  THEN IF PartOf(SRI_LANKA, text) \/ PartOf(SRILANKA, text)
                         THEN detail.value = SRI_LANKA
                         ELSE detail.value \in CountryNames /\ PartOf(detail.value, text)
                  ELSE /\ \/ \E k \in 1..5 : IsLabelOfDestination(<<detail.address[1], detail.address[2] - k>>)
                          \/ IsLabelOfDestination(<<detail.address[1] - 1, detail.address[2]>>)
                       /\ IF PartOf(SRI_LANKA, text) \/ PartOf(SRILANKA, text) \/ PartOf(COLOMBO, text)
                            THEN detail.value = SRI_LANKA
                            ELSE detail.value = text

\* C7 witness: a destination label had an 'origin' cell next to it, and the
\* destination was taken from another cell
C7_Witness ==
  /\ RunDone
  /\ Found("destination_port")
  /\ \E a \in DOMAIN uploadedFile.sheet :
       /\ IsLabelOfDestination(a)
       /\ Contains(<<a[1], a[2] + 1>>, kwOrigin)
       /\ LastDetail("destination_port").address = <<a[1] + 1, a[2]>>

\* C8: an extraction run changes formData only in the target fields for
\* which it found a value; every other field keeps the value it had.
C8_OnlyExtractedFieldsChange ==
  [][(reading # << >> /\ reading' = << >>) =>
       /\ DOMAIN formData' = DOMAIN formData
       /\ \A f \in DOMAIN formData :
            formData'[f] # formData[f] =>
              /\ f \in TargetFields
              /\ \E i \in DOMAIN extractionLog' :
                   /\ extractionLog'[i].kind = "detail"
                   /\ extractionLog'[i].info.field = f]_vars

\* C8 witness: the run filled the invoice number and left the typed
\* commodity, remarks and status as they were
C8_Witness ==
  /\ RunDone
  /\ Found("invoice_number") /\ ~Found("commodity")
  /\ formData.invoice_number # TypedForm.invoice_number
  /\ formData.commodity = TypedForm.commodity
  /\ formData.remarks = TypedForm.remarks
  /\ formData.pq_status = stReceived

\* --- the displayed list (SpecView) ---
Displayed == {filteredAndSortedRecords[i] : i \in DOMAIN filteredAndSortedRecords}
Stored == {records[i] : i \in DOMAIN records}
StringKeys ==
  {"id", "created_at", "updated_at", "date", "shipper_name", "buyer", "invoice_number",
   "commodity", "pq_status", "pq_hardcopy", "permit_copy_status", "destination_port", "remarks"}
SearchHit(r) ==
  \/ searchTerm = << >>
  \/ \E key \in StringKeys :
       r[key] \notin {JsNull, JsUndefined} /\ PartOf(toUpperCase(searchTerm), toUpperCase(r[key]))
FiltersHit(r) ==
  \A key \in DOMAIN filters :
    filters[key] \in {<< >>, JsUndefined} \/ (key \in DOMAIN r /\ r[key] = filters[key])
DayOf(date) == getTime(date)
RangeHit(r) ==
  /\ dateRange.start = << >> \/ DayOf(dateRange.start) <= DayOf(r.date)
  /\ dateRange.end = << >> \/ DayOf(r.date) <= DayOf(dateRange.end)
Completed(r) ==
  /\ r.shipping_bill_received = JsTrue
  /\ r.pq_status = stReceived
  /\ r.permit_copy_status = stReceived \/ r.permit_copy_status = stNotRequired
SectionHit(r) ==
  \/ activeSection = "all"
  \/ activeSection = "pending" /\ ~Completed(r)
  \/ activeSection = "received" /\ Completed(r)
  \/ activeSection = "hardcopyMissing" /\ r.pq_hardcopy \in {stNotReceived, JsNull, << >>}

\* C9: the displayed list holds exactly the records that pass the search term,
\* every set filter, the inclusive date range and the active section
\* together; it holds no record outside records and none twice.
C9_DisplayedAreThePassingRecords ==
  /\ Displayed = {r \in Stored : SearchHit(r) /\ FiltersHit(r) /\ RangeHit(r) /\ SectionHit(r)}
  /\ \A i, j \in DOMAIN filteredAndSortedRecords :
       filteredAndSortedRecords[i] = filteredAndSortedRecords[j] => i = j

\* C9 witness: with a search term, a shipper filter, both date bounds and a
\* section set, one of two records is displayed, dated on the day that is
\* both bounds of the range
C9_Witness ==
  /\ Len(records) = 2
  /\ searchTerm # << >>
  /\ "shipper_name" \in DOMAIN filters /\ filters.shipper_name = shipAcme
  /\ dateRange.start = dateEarly /\ dateRange.end = dateEarly
  /\ activeSection = "pending"
  /\ Len(filteredAndSortedRecords) = 1
  /\ filteredAndSortedRecords[1].date = dateEarly

\* C10: with 'Yes' (resp. 'No') chosen in the Bill Status filter, the
\* displayed records are exactly the records with shipping_bill_received true
\* (resp. false) among those passing the other criteria.
BillChoice == Field(filters, "shipping_bill_received")
OtherCriteria(r) ==
  /\ SearchHit(r) /\ RangeHit(r) /\ SectionHit(r)
  /\ \A key \in DOMAIN filters \ {"shipping_bill_received"} :
       filters[key] \in {<< >>, JsUndefined} \/ (key \in DOMAIN r /\ r[key] = filters[key])
C10_BillStatusFilterSelects ==
  /\ BillChoice = stYes =>
       Displayed = {r \in Stored : r.shipping_bill_received = JsTrue /\ OtherCriteria(r)}
  /\ BillChoice = stNo =>
       Displayed = {r \in Stored : r.shipping_bill_received = JsFalse /\ OtherCriteria(r)}

\* C10 witness: 'Yes' is chosen while a record with the shipping bill received
\* passes every other criterion
C10_Witness ==
  /\ BillChoice = stYes
  /\ \E r \in Stored : r.shipping_bill_received = JsTrue /\ OtherCriteria(r)

\* C10, what the view does: with 'Yes' or 'No' chosen no record is displayed
C10_BillStatusFilterShowsNothing ==
  BillChoice \in {stYes, stNo} => Displayed = {}

\* --- the order of the displayed list (SpecSort, SpecView) ---
\* the record field each option of the sort select stands for
OptionField ==
  [createdAt |-> "created_at", date |-> "date", shipperName |-> "shipper_name",
   buyer |-> "buyer", destinationPort |-> "destination_port", pqStatus |-> "pq_status"]
\* the minute a created_at of the form YYYY-MM-DDTHH:MM stands for
MinuteOf(stamp) ==
  (DayOf(SubSeq(stamp, 1, 10)) * 24 + DigitsValue(SubSeq(stamp, 12, 13))) * 60
    + DigitsValue(SubSeq(stamp, 15, 16))
\* a's value of the field is not greater than b's
FieldLeq(field, a, b) ==
  CASE field = "date" -> DayOf(a.date) <= DayOf(b.date)
    [] field = "created_at" -> MinuteOf(a.created_at) <= MinuteOf(b.created_at)
    [] OTHER -> localeCompare(a[field], b[field]) <= 0
OrderedBy(field, order) ==
  \A i \in 1..(Len(filteredAndSortedRecords) - 1) :
    IF order = "asc"
      THEN FieldLeq(field, filteredAndSortedRecords[i], filteredAndSortedRecords[i + 1])
      ELSE FieldLeq(field, filteredAndSortedRecords[i + 1], filteredAndSortedRecords[i])

\* C11: with any option of the sort select chosen, the displayed records are
\* in non-decreasing order of the option's record field when the order is
\* ascending and in non-increasing order when it is descending.
C11_SortedByChosenOption ==
  sortBy \in sortByOptions => OrderedBy(OptionField[sortBy], sortOrder)

\* C11 witness: 'Sort by Shipper', ascending, is chosen for two displayed
\* records whose shipper names are in descending order in records
C11_Witness ==
  /\ sortBy = "shipperName" /\ sortOrder = "asc"
  /\ Len(records) = 2
  /\ localeCompare(records[1].shipper_name, records[2].shipper_name) > 0

\* C11, what the view does: the options 'date' and 'buyer' name record
\* fields and order the list; the other four name no field of a record and
\* leave the list in the order of records
C11_OnlyDateAndBuyerSort ==
  /\ sortBy \in {"date", "buyer"} => OrderedBy(sortBy, sortOrder)
  /\ sortBy \in sortByOptions \ {"date", "buyer"} => filteredAndSortedRecords = records

\* C12: while sortBy and sortOrder keep their initial values, the displayed
\* records are in non-increasing order of created_at (latest first).
C12_LatestFirstByDefault == OrderedBy("created_at", "desc")

\* C12 witness: two records are displayed latest first although records holds
\* the earlier one first
C12_Witness ==
  /\ Len(records) = 2 /\ Len(filteredAndSortedRecords) = 2
  /\ MinuteOf(records[1].created_at) < MinuteOf(records[2].created_at)
  /\ filteredAndSortedRecords[1] = records[2]
  /\ sortBy = "created_at" /\ sortOrder = "desc"

\* C16: a record is complete exactly when its shipping bill is received, its
\* pq_status is 'Received' and its permit is 'Received' or 'Not Required'; each
\* record is in exactly one of the Pending and Received sections, and
\* pendingCount + receivedCount is the number of records
C16_SectionsPartitionByCompleteness ==
  /\ \A i \in DOMAIN records :
       /\ isRecordCompleted(records[i]) <=> Completed(records[i])
       /\ matchesSection(records[i], "received") <=> Completed(records[i])
       /\ matchesSection(records[i], "pending") <=> ~Completed(records[i])
  /\ receivedCount = Cardinality({i \in DOMAIN records : Completed(records[i])})
  /\ pendingCount + receivedCount = Len(records)
\* a list with a record of each section
C16_Witness == pendingCount >= 1 /\ receivedCount >= 1

\* C17: the record a confirmed "Mark as completed" produces is completed, for
\* every record the button is shown on
C17_MarkedRecordIsCompleted ==
  [][\A i \in DOMAIN records :
       (~isRecordCompleted(records[i]) /\ handleMarkCompleted(records[i], TRUE))
         => isRecordCompleted(updatedRecord(records[i]))]_vars
\* a loaded record the button is shown on, whose permit is still awaited
C17_Witness ==
  \E i \in DOMAIN records :
    /\ ~isRecordCompleted(records[i])
    /\ records[i].permit_copy_status \notin {stReceived, stNotRequired}
\* the produced record is completed exactly when the permit was settled before
C17_CompletedWhenPermitSettled ==
  [][\A i \in DOMAIN records :
       (~isRecordCompleted(records[i]) /\ handleMarkCompleted(records[i], TRUE))
         => (isRecordCompleted(updatedRecord(records[i]))
               <=> records[i].permit_copy_status \in {stReceived, stNotRequired})]_vars

\* C18: handleSectionChange sets activeSection to the chosen section and
\* removes the pq_status and pq_hardcopy filters only: every other filter key,
\* searchTerm, dateRange, sortBy, sortOrder and viewMode keep their values
SectionFilterKeys == {"pq_status", "pq_hardcopy"}
C18_SectionChangeClearsTwoFilters ==
  [][\A section \in Sections :
       handleSectionChange(section)
         => /\ activeSection' = section
            /\ DOMAIN filters' = DOMAIN filters \ SectionFilterKeys
            /\ \A key \in DOMAIN filters' : filters'[key] = filters[key]
            /\ searchTerm' = searchTerm /\ dateRange' = dateRange
            /\ sortBy' = sortBy /\ sortOrder' = sortOrder
            /\ viewMode' = viewMode]_vars
\* a section entered with a search term, a date and a shipper filter in place
C18_Witness ==
  /\ activeSection = "received"
  /\ DOMAIN filters = {"shipper_name"}
  /\ searchTerm # << >>
  /\ dateRange.start # << >>
  /\ sortBy = "buyer" /\ sortOrder = "asc" /\ viewMode = "list"

\* C19: with no search term, no date range and no filter chosen by the user,
\* the number of records displayed in a section is the count on its button,
\* whether the section was entered by its button or through initialFilter
ButtonCount ==
  CASE activeSection = "pending" -> pendingCount
    [] activeSection = "received" -> receivedCount
    [] activeSection = "hardcopyMissing" -> hardcopyMissingCount
    [] OTHER -> Len(records)
C19_DisplayedCountIsButtonCount == currentSectionCount = ButtonCount
\* the hardcopy section entered through initialFilter, with a record whose
\* pq_hardcopy is null
C19_Witness ==
  /\ activeSection = "hardcopyMissing"
  /\ "pq_hardcopy" \in DOMAIN filters
  /\ \E i \in DOMAIN records : records[i].pq_hardcopy = JsNull
\* the counts do agree once the section was entered by its button
C19_CountsAgreeAfterButton ==
  DOMAIN filters \cap SectionFilterKeys = {} => currentSectionCount = ButtonCount

\* C20: an extraction that finds no field, or whose file cannot be read,
\* leaves formData as it was, sets errors.file to a message, and adds or
\* removes no other entry of errors
FindsNothing(file) ==
  file.readable /\ Assigned(scan(cellMapOf(file.sheet)).extractionDetails) = EmptyObject
C20_FailedExtractionKeepsForm ==
  [][\A i \in DOMAIN reading :
       (extractDataFromExcel(i) /\ (~reading[i].readable \/ FindsNothing(reading[i])))
         => /\ formData' = formData
            /\ "file" \in DOMAIN errors'
            /\ errors'.file = (IF reading[i].readable THEN NothingExtracted ELSE FileUnreadable)
            /\ DOMAIN errors' \ {"file"} = DOMAIN errors \ {"file"}
            /\ \A key \in DOMAIN errors \ {"file"} : errors'[key] = errors[key]]_vars
\* a failed extraction on a typed form that has the errors of a refused submit
C20_Witness ==
  /\ reading = << >>
  /\ {"file", "buyer"} \subseteq DOMAIN errors
  /\ formData.shipper_name = txTyped
  /\ uploadedFile # NoFile

\* C21: isProcessingFile is true from the start of an extraction until it
\* finishes and false afterwards, whether fields were found, nothing was found
\* or the file could not be read; no submit starts while an extraction runs
C21_ProcessingWhileExtracting ==
  /\ [](isProcessingFile <=> reading # << >>)
  /\ [][\A i \in DOMAIN reading : extractDataFromExcel(i) => ~isProcessingFile']_vars
  /\ [][handleSubmit => reading = << >>]_vars
\* an extraction still running after its file was removed from the form
C21_Witness ==
  /\ isProcessingFile
  /\ reading # << >>
  /\ uploadedFile = NoFile

\* C22: every storage operation rejects when the table operation returns an
\* error, and savePQRecord resolves only when a row was inserted
Refused(id, row) == \E k \in DOMAIN table : table[k].id = id /\ violates(table, k, row)
Inserted(row) ==
  /\ Len(table') = Len(table) + 1
  /\ WithoutKey(table'[Len(table')], "id") = row
C22_StorageErrorsSurface ==
  [][\A record \in NewRecords :
       /\ (savePQRecord(record) /\ violates(table, 0, columnsOf(rowOf(record))))
            => outcome' \in Errors
       /\ (savePQRecord(record) /\ outcome' = "resolved")
            => Inserted(columnsOf(rowOf(record)))
       /\ \A i \in DOMAIN records :
            (updatePQRecord(records[i].id, record) /\ UNCHANGED << viewVars, formVars >>
               /\ Refused(records[i].id, columnsOf(rowOf(record))))
              => outcome' \in Errors]_vars
\* a loaded record and an edit of it that the table refuses
C22_Witness ==
  \E i \in DOMAIN records : \E record \in NewRecords :
    Refused(records[i].id, columnsOf(rowOf(record)))
\* savePQRecord does surface the error, and resolves only with an inserted row
C22_SaveErrorsSurface ==
  [][\A record \in NewRecords :
       /\ (savePQRecord(record) /\ violates(table, 0, columnsOf(rowOf(record))))
            => outcome' \in Errors
       /\ (savePQRecord(record) /\ outcome' = "resolved")
            => Inserted(columnsOf(rowOf(record)))]_vars
\* a refused update resolves and leaves the table as it was
C22_RefusedUpdateResolves ==
  [][\A record \in NewRecords : \A i \in DOMAIN records :
       (updatePQRecord(records[i].id, record) /\ UNCHANGED << viewVars, formVars >>
          /\ Refused(records[i].id, columnsOf(rowOf(record))))
         => (outcome' = "resolved" /\ table' = table)]_vars

====
